---- MODULE Spec2Model ----
(***************************************************************************)
(* Model of rust_pcap_converter/src/main.rs: the per-packet record         *)
(* extraction (process_packet) and the deduplicated-append ingestion into  *)
(* the target parquet file (main).                                         *)
(*                                                                         *)
(* Strings the code inspects character by character (capdata, numeric     *)
(* fields) are sequences of one-character strings; strings it only        *)
(* compares for equality (session ids, urb ids) are TLA+ strings.          *)
(* Option<T> is a sequence of length 0 (None) or 1 (Some).                 *)
(* A DataFrame is a record of equally long columns.                        *)
(***************************************************************************)
EXTENDS Integers, Sequences, FiniteSets, TLC

\* ---------------------------------------------------------------- bounds
MaxRuns == 3            \* invocations of the tool in one behaviour
MaxStreamLen == 1       \* length of the freely chosen packet streams

\* ------------------------------------------------------ program constants
NewSample == 5          \* .take(5) of the new batch's urb_id column
ExistingSample == 100   \* .take(100) of the existing urb_id column
DuplicateThreshold == 2 \* duplicates >= 2
U8Max == 255             \* bus_id: u8

\* ------------------------------------------------------------- Option<T>
None == <<>>
Some(v) == <<v>>
IsSome(o) == Len(o) = 1
Unwrap(o) == o[1]

\* ------------------------------------------------------------ hex crate
LowerDigits == <<"0","1","2","3","4","5","6","7","8","9","a","b","c","d","e","f">>
UpperDigits == <<"0","1","2","3","4","5","6","7","8","9","A","B","C","D","E","F">>

IsHexChar(c) == \E i \in 1..16 : LowerDigits[i] = c \/ UpperDigits[i] = c
HexVal(c) == (CHOOSE i \in 1..16 : LowerDigits[i] = c \/ UpperDigits[i] = c) - 1

\* hex::decode: an odd length or a non-hex character is an error
hex_decode(s) ==
    IF Len(s) % 2 # 0 \/ (\E i \in 1..Len(s) : ~IsHexChar(s[i]))
    THEN [ok |-> FALSE, bytes |-> <<>>]
    ELSE [ok |-> TRUE,
          bytes |-> [i \in 1..(Len(s) \div 2) |->
                        HexVal(s[2*i - 1]) * 16 + HexVal(s[2*i])]]

\* an encoding with uppercase digits (hex::encode_upper)
hex_encode_Upper(bytes) ==
    [i \in 1..(2 * Len(bytes)) |->
        IF i % 2 = 1 THEN UpperDigits[(bytes[(i + 1) \div 2] \div 16) + 1]
                     ELSE UpperDigits[(bytes[i \div 2] % 16) + 1]]

\* hex::encode: two lowercase digits per byte
hex_encode(bytes) ==
    [i \in 1..(2 * Len(bytes)) |->
        IF i % 2 = 1 THEN LowerDigits[(bytes[(i + 1) \div 2] \div 16) + 1]
                     ELSE LowerDigits[(bytes[i \div 2] % 16) + 1]]

\* str::replace(':', "")
RemoveColons(s) == SelectSeq(s, LAMBDA c : c # ":")

\* str::parse::<u8>(): optional '+', then at least one decimal digit, no overflow
IsDecDigit(c) == \E i \in 1..10 : LowerDigits[i] = c
RECURSIVE DecValue(_)
DecValue(s) == IF s = <<>> THEN 0
               ELSE DecValue(SubSeq(s, 1, Len(s) - 1)) * 10 + HexVal(s[Len(s)])
ParseU8(s) ==
    LET d == IF s # <<>> /\ s[1] = "+" THEN Tail(s) ELSE s
    IN  IF d = <<>> \/ (\E i \in 1..Len(d) : ~IsDecDigit(d[i])) THEN None
        ELSE IF DecValue(d) > U8Max THEN None
        ELSE Some(DecValue(d))

\* ------------------------------------------------------------ packets
\* An rtshark packet: which layers it has, and the metadata of the layers
\* (each field present or absent).
Packet(frame, usb, bus_id, direction, capdata, urb_id) ==
    [frame |-> frame, usb |-> usb, bus_id |-> bus_id,
     direction |-> direction, capdata |-> capdata, urb_id |-> urb_id]

Columns == {"session_id", "bus_id", "direction", "payload_hex",
            "payload_bytes_hex", "urb_id", "added_datetime"}

\* an extraction whose direction match has two arms only: "1" or anything else
process_packet_TwoWay(packet, sid, clock) ==
    LET payload_hex == IF IsSome(packet.capdata) THEN Unwrap(packet.capdata) ELSE <<>>
        clean_hex == RemoveColons(payload_hex)
        decoded == IF clean_hex = <<>> THEN [ok |-> TRUE, bytes |-> <<>>]
                   ELSE hex_decode(clean_hex)
        bus_id == IF IsSome(packet.bus_id) /\ IsSome(ParseU8(Unwrap(packet.bus_id)))
                  THEN Unwrap(ParseU8(Unwrap(packet.bus_id))) ELSE 0
        direction == IF packet.direction = Some("1") THEN "D->H" ELSE "H->D"
        urb_id == IF IsSome(packet.urb_id) THEN Unwrap(packet.urb_id) ELSE "Unknown"
    IN  IF ~packet.frame THEN [ok |-> FALSE, err |-> "Missing frame layer"]
        ELSE IF ~packet.usb THEN [ok |-> FALSE, err |-> "Missing USB layer"]
        ELSE IF ~decoded.ok THEN [ok |-> FALSE, err |-> "Failed to decode hex payload"]
        ELSE [ok |-> TRUE,
              record |-> [session_id |-> sid,
                          bus_id |-> bus_id,
                          direction |-> direction,
                          payload_hex |-> clean_hex,
                          payload_bytes_hex |-> hex_encode(decoded.bytes),
                          urb_id |-> urb_id,
                          added_datetime |-> clock]]

\* process_packet: Err (ok = FALSE) or the record
process_packet(packet, sid, clock) ==
    LET payload_hex == IF IsSome(packet.capdata) THEN Unwrap(packet.capdata) ELSE <<>>
        clean_hex == RemoveColons(payload_hex)
        decoded == IF clean_hex = <<>> THEN [ok |-> TRUE, bytes |-> <<>>]
                   ELSE hex_decode(clean_hex)
        bus_id == IF IsSome(packet.bus_id) /\ IsSome(ParseU8(Unwrap(packet.bus_id)))
                  THEN Unwrap(ParseU8(Unwrap(packet.bus_id))) ELSE 0
        direction == IF packet.direction = Some("0") THEN "H->D"
                     ELSE IF packet.direction = Some("1") THEN "D->H"
                     ELSE "Unknown"
        urb_id == IF IsSome(packet.urb_id) THEN Unwrap(packet.urb_id) ELSE "Unknown"
    IN  IF ~packet.frame THEN [ok |-> FALSE, err |-> "Missing frame layer"]
        ELSE IF ~packet.usb THEN [ok |-> FALSE, err |-> "Missing USB layer"]
        ELSE IF ~decoded.ok THEN [ok |-> FALSE, err |-> "Failed to decode hex payload"]
        ELSE [ok |-> TRUE,
              record |-> [session_id |-> sid,
                          bus_id |-> bus_id,
                          direction |-> direction,
                          payload_hex |-> clean_hex,
                          payload_bytes_hex |-> hex_encode(decoded.bytes),
                          urb_id |-> urb_id,
                          added_datetime |-> clock]]

\* a loop that propagates the first extraction error and ends the stream there
ReadLoop_StopAtError(stream, sid, clock) ==
    LET results == [i \in 1..Len(stream) |-> process_packet(stream[i], sid, clock)]
        bad == {i \in 1..Len(stream) : ~results[i].ok}
        n == IF bad = {} THEN Len(stream)
             ELSE (CHOOSE i \in bad : \A j \in bad : i <= j) - 1
    IN  [i \in 1..n |-> results[i].record]

\* the while-let loop of main: process_packet on every packet in stream order,
\* the Ok records pushed, the Err ones dropped
ReadLoop(stream, sid, clock) ==
    LET results == [i \in 1..Len(stream) |-> process_packet(stream[i], sid, clock)]
        oks == SelectSeq(results, LAMBDA r : r.ok)
    IN  [i \in 1..Len(oks) |-> oks[i].record]

\* ------------------------------------------------------------ data frames
EmptyDf == [c \in Columns |-> <<>>]
create_dataframe(recs) == [c \in Columns |-> [i \in 1..Len(recs) |-> recs[i][c]]]
Height(df) == Len(df["session_id"])
Row(df, i) == [c \in Columns |-> df[c][i]]
\* stacking in the wrong order
vstack_NewFirst(a, b) == [c \in Columns |-> b[c] \o a[c]]
\* DataFrame::vstack
vstack(a, b) == [c \in Columns |-> a[c] \o b[c]]

\* Iterator::take(n)
Take(s, n) == SubSeq(s, 1, IF Len(s) < n THEN Len(s) ELSE n)

\* a session check that looks at the first row only
ExistingSessions_FirstRow(df) == {df["session_id"][i] : i \in 1..(IF Height(df) > 0 THEN 1 ELSE 0)}

\* existing_df.column("session_id").unique()
ExistingSessions(df) == {df["session_id"][i] : i \in 1..Height(df)}

\* the revision without the session guard
SessionExists_NoGuard(df, sid) == FALSE

\* existing_sessions.contains(&session_id)
SessionExists(df, sid) == sid \in ExistingSessions(df)

\* a count of the distinct sampled ids found, not of the entries
CountDuplicates_Distinct(new_df, existing_df) ==
    LET new_urb_ids == Take(new_df["urb_id"], NewSample)
        existing_urb_ids == Take(existing_df["urb_id"], ExistingSample)
    IN  Cardinality({new_urb_ids[i] : i \in 1..Len(new_urb_ids)}
                    \cap {existing_urb_ids[j] : j \in 1..Len(existing_urb_ids)})

\* new_urb_ids.iter().filter(|id| existing_urb_ids.contains(id)).count()
CountDuplicates(new_df, existing_df) ==
    LET new_urb_ids == Take(new_df["urb_id"], NewSample)
        existing_urb_ids == Take(existing_df["urb_id"], ExistingSample)
    IN  Len(SelectSeq(new_urb_ids,
                      LAMBDA id : \E j \in 1..Len(existing_urb_ids) :
                                      existing_urb_ids[j] = id))

\* the urb_id guard with a strict comparison
LikelyDuplicate_Strict(new_df, existing_df) ==
    /\ Height(new_df) > 0
    /\ Height(existing_df) > 0
    /\ CountDuplicates(new_df, existing_df) > DuplicateThreshold

\* the urb_id guard of the append branch
LikelyDuplicate(new_df, existing_df) ==
    /\ Height(new_df) > 0
    /\ Height(existing_df) > 0
    /\ CountDuplicates(new_df, existing_df) >= DuplicateThreshold

\* ------------------------------------------------------------ target file
\* absent: no file; valid: a complete parquet table; empty: created or
\* truncated to zero bytes; partial: a write that stopped partway.
Absent == [state |-> "absent", df |-> EmptyDf]
Parquet(df) == [state |-> "valid", df |-> df]
Truncated == [state |-> "empty", df |-> EmptyDf]
Partial == [state |-> "partial", df |-> EmptyDf]

\* an append that does not look whether the target exists
Exists_Always(f) == TRUE
\* Path::exists
Exists(f) == f.state # "absent"
\* LazyFrame::scan_parquet(..).collect() succeeds on a complete table only
Readable(f) == f.state = "valid"

\* ------------------------------------------------------------ inputs
SessionIds == {"S1", "S2"}

PktA == Packet(TRUE, TRUE, Some(<<"1">>), Some("0"), Some(<<"0","a",":","F","F">>), Some("a"))
PktB == Packet(TRUE, TRUE, Some(<<"2">>), Some("1"), None, Some("b"))
PktC == Packet(TRUE, TRUE, Some(<<"2">>), Some("2"), Some(<<>>), Some("c"))
PktZ == Packet(TRUE, TRUE, None, None, None, Some("z"))
PktNoUsb == Packet(TRUE, FALSE, Some(<<"3">>), None, None, None)
PktBadHex == Packet(TRUE, TRUE, Some(<<"4">>), Some("0"), Some(<<"0","g">>), Some("a"))

MainPackets == {PktA, PktB, PktNoUsb, PktBadHex}

SeqsUpTo(S, n) == UNION {[1..k -> S] : k \in 0..n}

\* k filler packets followed by the packets a, b
Padded(k) == [i \in 1..(k + 2) |-> IF i <= k THEN PktZ
                                   ELSE IF i = k + 1 THEN PktA ELSE PktB]
PadLengths == {NewSample - 2, NewSample - 1, NewSample,
               ExistingSample - 1, ExistingSample}

\* two captures of two packets that share one urb id
PairStreams == {<<PktA, PktB>>, <<PktC, PktA>>}

\* every short stream, the padded streams and the two pairs
MainStreams ==
    SeqsUpTo(MainPackets, MaxStreamLen)
    \cup {Padded(k) : k \in PadLengths}
    \cup PairStreams

\* ------------------------------------------------------------ state
VARIABLES
    file,           \* content of the target path args.output
    pc,             \* position of the running invocation in main
    now,            \* wall clock (chrono::Utc::now), one tick per invocation
    session_id,     \* the session id of the invocation
    append,         \* args.append
    rtshark,        \* packets the capture parser has still to yield
    packet_count,   \* packets read
    records,        \* records pushed by the read loop
    existing_df,    \* the table loaded from the target
    final_df,       \* the table to save
    outcome,        \* which branch main took
    exit,           \* what main returned: "Ok", "Err" or "none"
    reads,          \* loads of the target in this invocation
    writes,         \* File::create + ParquetWriter::finish in this invocation
    pre,            \* the target as it was when the invocation started
    printed         \* what the run printed: extracted and saved counts, warning

vars == <<file, pc, now, session_id, append, rtshark, packet_count, records,
          existing_df, final_df, outcome, exit, reads, writes, pre, printed>>

NoPrint == [extracted |-> -1, saved |-> -1, warning |-> FALSE]

Init ==
    /\ file = Absent
    /\ pc = "idle"
    /\ now = 0
    /\ session_id = "S1"
    /\ append = FALSE
    /\ rtshark = <<>>
    /\ packet_count = 0
    /\ records = <<>>
    /\ existing_df = EmptyDf
    /\ final_df = EmptyDf
    /\ outcome = "none"
    /\ exit = "none"
    /\ reads = 0
    /\ writes = 0
    /\ pre = Absent
    /\ printed = NoPrint

\* main, lines 92-186: arguments parsed, the capture parser spawned, the
\* stream it yields read to its end and the extraction reported
Start(sid, app, stream) ==
    /\ pc = "idle"
    /\ now < MaxRuns
    /\ now' = now + 1
    /\ session_id' = sid
    /\ append' = app
    /\ rtshark' = <<>>
    /\ packet_count' = Len(stream)
    /\ records' = ReadLoop(stream, sid, now')
    /\ existing_df' = EmptyDf
    /\ final_df' = EmptyDf
    /\ outcome' = "none"
    /\ exit' = "none"
    /\ reads' = 0
    /\ writes' = 0
    /\ pre' = file
    /\ printed' = [NoPrint EXCEPT !.extracted = Len(records')]
    /\ pc' = "merge"
    /\ UNCHANGED file

\* main, lines 166-186: the read loop and the extraction report, for a
\* stream already handed over by the parser
ReadPackets ==
    /\ pc = "read"
    /\ records' = ReadLoop(rtshark, session_id, now)
    /\ packet_count' = Len(rtshark)
    /\ rtshark' = <<>>
    /\ printed' = [printed EXCEPT !.extracted = Len(records')]
    /\ pc' = "merge"
    /\ UNCHANGED <<file, now, session_id, append, existing_df, final_df,
                   outcome, exit, reads, writes, pre>>

\* no early return: an empty batch falls through to the save
EmptyBatch_FallThrough ==
    /\ pc = "merge"
    /\ records = <<>>
    /\ outcome' = "Replace"
    /\ final_df' = create_dataframe(records)
    /\ pc' = "save"
    /\ UNCHANGED <<file, now, session_id, append, rtshark, packet_count, records,
                   existing_df, exit, reads, writes, pre, printed>>

\* main, lines 188-191: nothing extracted
EmptyBatch ==
    /\ pc = "merge"
    /\ records = <<>>
    /\ outcome' = "Empty"
    /\ exit' = "Ok"
    /\ pc' = "done"
    /\ UNCHANGED <<file, now, session_id, append, rtshark, packet_count, records,
                   existing_df, final_df, reads, writes, pre, printed>>

\* main, lines 197-200: the load of the existing table fails
LoadFails ==
    /\ pc = "merge"
    /\ records # <<>>
    /\ append /\ Exists(file)
    /\ ~Readable(file)
    /\ reads' = reads + 1
    /\ outcome' = "StorageFailure"
    /\ exit' = "Err"
    /\ pc' = "done"
    /\ UNCHANGED <<file, now, session_id, append, rtshark, packet_count, records,
                   existing_df, final_df, writes, pre, printed>>

\* main, lines 197-239: append to an existing table
MergeAppend ==
    /\ pc = "merge"
    /\ records # <<>>
    /\ append /\ Exists(file)
    /\ Readable(file)
    /\ reads' = reads + 1
    /\ existing_df' = file.df
    /\ LET new_df == create_dataframe(records)
       IN  IF SessionExists(existing_df', session_id)
           THEN /\ outcome' = "DuplicateSession"
                /\ exit' = "Ok"
                /\ pc' = "done"
                /\ UNCHANGED final_df
           ELSE IF LikelyDuplicate(new_df, existing_df')
           THEN /\ outcome' = "LikelyDuplicateContent"
                /\ exit' = "Ok"
                /\ pc' = "done"
                /\ UNCHANGED final_df
           ELSE /\ outcome' = "Combined"
                /\ final_df' = vstack(existing_df', new_df)
                /\ pc' = "save"
                /\ UNCHANGED exit
    /\ UNCHANGED <<file, now, session_id, append, rtshark, packet_count, records,
                   writes, pre, printed>>

\* main, lines 240-245: the new batch is the whole table
MergeReplace ==
    /\ pc = "merge"
    /\ records # <<>>
    /\ ~(append /\ Exists(file))
    /\ outcome' = "Replace"
    /\ final_df' = create_dataframe(records)
    /\ pc' = "save"
    /\ UNCHANGED <<file, now, session_id, append, rtshark, packet_count, records,
                   existing_df, exit, reads, writes, pre, printed>>

\* main, line 249: File::create truncates the target (or creates it)
CreateFile ==
    /\ pc = "save"
    /\ file' = Truncated
    /\ writes' = writes + 1
    /\ pc' = "write"
    /\ UNCHANGED <<now, session_id, append, rtshark, packet_count, records,
                   existing_df, final_df, outcome, exit, reads, pre, printed>>

\* main, line 249: File::create fails, the target is not touched
CreateFails ==
    /\ pc = "save"
    /\ exit' = "Err"
    /\ pc' = "done"
    /\ UNCHANGED <<file, now, session_id, append, rtshark, packet_count, records,
                   existing_df, final_df, outcome, reads, writes, pre, printed>>

\* main, lines 250-252: the table is written through the open file
WriteParquet ==
    /\ pc = "write"
    /\ file' = Parquet(final_df)
    /\ printed' = [printed EXCEPT !.saved = Height(final_df)]
    /\ pc' = "stats"
    /\ UNCHANGED <<now, session_id, append, rtshark, packet_count, records,
                   existing_df, final_df, outcome, exit, reads, writes, pre>>

\* a failed write that is tried again
WriteFails_Retry ==
    /\ pc = "write"
    /\ file' \in {Truncated, Partial}
    /\ pc' = "save"
    /\ UNCHANGED <<now, session_id, append, rtshark, packet_count, records,
                   existing_df, final_df, outcome, exit, reads, writes, pre, printed>>

\* main, line 250: the write stops partway
WriteFails ==
    /\ pc = "write"
    /\ file' \in {Truncated, Partial}
    /\ exit' = "Err"
    /\ pc' = "done"
    /\ UNCHANGED <<now, session_id, append, rtshark, packet_count, records,
                   existing_df, final_df, outcome, reads, writes, pre, printed>>

\* the revision that propagates a statistics error
PrintStatistics_Fatal(ok) ==
    /\ pc = "stats"
    /\ exit' = IF ok THEN "Ok" ELSE "Err"
    /\ pc' = "done"
    /\ UNCHANGED <<file, now, session_id, append, rtshark, packet_count, records,
                   existing_df, final_df, outcome, reads, writes, pre, printed>>

\* main, lines 255-260: print_statistics returns Ok or Err
PrintStatistics(ok) ==
    /\ pc = "stats"
    /\ printed' = [printed EXCEPT !.warning = ~ok]
    /\ exit' = "Ok"
    /\ pc' = "done"
    /\ UNCHANGED <<file, now, session_id, append, rtshark, packet_count, records,
                   existing_df, final_df, outcome, reads, writes, pre>>

\* main returns and the process ends; the target and the clock remain
Exit ==
    /\ pc = "done"
    /\ pc' = "idle"
    /\ session_id' = "S1"
    /\ append' = FALSE
    /\ packet_count' = 0
    /\ records' = <<>>
    /\ existing_df' = EmptyDf
    /\ final_df' = EmptyDf
    /\ outcome' = "none"
    /\ exit' = "none"
    /\ reads' = 0
    /\ writes' = 0
    /\ pre' = Absent
    /\ printed' = NoPrint
    /\ UNCHANGED <<file, now, rtshark>>

Next ==
    \/ \E sid \in SessionIds, app \in BOOLEAN, stream \in MainStreams :
          Start(sid, app, stream)
    \/ EmptyBatch
    \/ LoadFails
    \/ MergeAppend
    \/ MergeReplace
    \/ CreateFile
    \/ CreateFails
    \/ WriteParquet
    \/ WriteFails
    \/ \E ok \in BOOLEAN : PrintStatistics(ok)
    \/ Exit

Spec == Init /\ [][Next]_vars

\* ------------------------------------------------- extraction on its own
\* The read loop applied to streams over every combination of present,
\* absent, well-formed and ill-formed fields.
PktNoFrame == Packet(FALSE, TRUE, Some(<<"5">>), Some("1"), Some(<<"0","1">>), Some("b"))

BusIds == {None, Some(<<"7">>), Some(<<"3","0","0">>), Some(<<"+","9">>), Some(<<"x">>)}
Directions == {None, Some("0"), Some("1"), Some("2")}
Capdatas == {None, Some(<<>>), Some(<<"0","a",":","F","F">>), Some(<<"0","g">>),
             Some(<<"a","b","c">>), Some(<<":">>)}
UrbIds == {None, Some("a")}

ExtractPackets ==
    {Packet(f, TRUE, b, d, c, u) :
        f \in BOOLEAN, b \in BusIds, d \in Directions, c \in Capdatas, u \in UrbIds}
    \cup {Packet(f, FALSE, None, None, None, None) : f \in BOOLEAN}

ExtractStreams ==
    SeqsUpTo(ExtractPackets, 1)
    \cup SeqsUpTo(MainPackets \cup {PktNoFrame}, MaxStreamLen + 2)

InitExtract ==
    /\ file = Absent
    /\ pc = "read"
    /\ now = 1
    /\ session_id \in SessionIds
    /\ append = FALSE
    /\ rtshark \in ExtractStreams
    /\ packet_count = 0
    /\ records = <<>>
    /\ existing_df = EmptyDf
    /\ final_df = EmptyDf
    /\ outcome = "none"
    /\ exit = "none"
    /\ reads = 0
    /\ writes = 0
    /\ pre = Absent
    /\ printed = NoPrint

NextExtract == ReadPackets

SpecExtract == InitExtract /\ [][NextExtract]_vars

\* ------------------------------------------- re-ingestion of a capture
\* Append invocations only, under three session ids, over a few captures:
\* one and two records, a failing packet, and one longer than the sample
\* of the existing table.
ReingestSessionIds == SessionIds \cup {"S3"}
ReingestStreams ==
    {<<PktA>>, <<PktNoUsb>>, <<PktA, PktB>>, <<PktC, PktA>>, Padded(ExistingSample - 1)}

NextReingest ==
    \/ \E sid \in ReingestSessionIds, stream \in ReingestStreams :
          Start(sid, TRUE, stream)
    \/ EmptyBatch
    \/ LoadFails
    \/ MergeAppend
    \/ MergeReplace
    \/ CreateFile
    \/ CreateFails
    \/ WriteParquet
    \/ WriteFails
    \/ \E ok \in BOOLEAN : PrintStatistics(ok)
    \/ Exit

SpecReingest == Init /\ [][NextReingest]_vars

\* ================================================================ claims
\* what the claims say, stated on the rows of the tables
Min(a, b) == IF a < b THEN a ELSE b
TableRows(df) == [i \in 1..Len(df["session_id"]) |-> [c \in Columns |-> df[c][i]]]
RowsOf(f) == TableRows(f.df)
HasSession(f, sid) ==
    LET col == f.df["session_id"] IN \E i \in 1..Len(col) : col[i] = sid
Running == pc \in {"merge", "save", "write", "stats", "done"}
Decided == pc \in {"save", "write", "stats", "done"}
Saved == pc = "stats" \/ (pc = "done" /\ printed.saved >= 0)

\* entries among the first 5 new urb ids that occur among the first 100 existing ones
Overlap(new, old) ==
    LET N == [i \in 1..Min(5, Len(new)) |-> new[i]["urb_id"]]
        E == {old[j]["urb_id"] : j \in 1..Min(100, Len(old))}
    IN  Cardinality({i \in 1..Len(N) : N[i] \in E})

\* C1: an append of a non-empty batch whose session id is already in the
\* existing dataset ends as the DuplicateSession rejection, with no write and
\* the target left as it was, in every invocation however often repeated.
C1_DuplicateSessionRejected ==
    (Running /\ append /\ pre.state = "valid" /\ HasSession(pre, session_id)
        /\ records # <<>>)
    => /\ file = pre
       /\ writes = 0
       /\ pc \in {"merge", "done"}
       /\ pc = "done" => (outcome = "DuplicateSession" /\ exit = "Ok")

\* the rejection repeated: a third run, where the urb_id guard would fire too
C1_Witness ==
    /\ pc = "done" /\ outcome = "DuplicateSession" /\ now >= 3
    /\ append /\ records # <<>> /\ HasSession(pre, session_id)
    /\ Overlap(records, RowsOf(pre)) >= 2

\* C2: in every dataset the tool leaves at the target, all rows of one
\* session_id come from one invocation's batch (they carry that invocation's
\* added_datetime), and a Combined table never adds rows under a session id
\* that the table it extends already holds.
C2_OneBatchPerSession ==
    /\ file.state = "valid" =>
          LET rows == RowsOf(file)
              tags == {<<rows[i]["session_id"], rows[i]["added_datetime"]>> :
                          i \in 1..Len(rows)}
          IN  \A s, t \in tags : s[1] = t[1] => s[2] = t[2]
    /\ (Decided /\ outcome = "Combined") => ~HasSession(pre, session_id)

\* a dataset of two sessions, and a rerun of one of them rejected
C2_Witness ==
    /\ file.state = "valid"
    /\ HasSession(file, "S1") /\ HasSession(file, "S2")
    /\ pc = "done" /\ outcome = "DuplicateSession"

\* C3: an append of a non-empty batch under a new session id to a non-empty
\* dataset is rejected as LikelyDuplicateContent (nothing written) exactly
\* when at least 2 of the first 5 new urb ids occur among the first 100
\* existing urb ids, and is Combined otherwise.
C3_UrbIdHeuristic ==
    (Decided /\ append /\ records # <<>> /\ pre.state = "valid"
        /\ Len(RowsOf(pre)) > 0 /\ ~HasSession(pre, session_id))
    => IF Overlap(records, RowsOf(pre)) >= 2
       THEN outcome = "LikelyDuplicateContent" /\ pc = "done" /\ exit = "Ok"
            /\ writes = 0 /\ file = pre
       ELSE outcome = "Combined"

\* exactly two of the sampled new ids overlap: rejected
C3_Witness ==
    /\ pc = "done" /\ outcome = "LikelyDuplicateContent"
    /\ append /\ ~HasSession(pre, session_id)
    /\ Overlap(records, RowsOf(pre)) = 2
    /\ Len(records) > 2

\* C4: an accepted append saves the existing rows in their order followed
\* by the new rows in extraction order: nothing dropped, reordered or
\* duplicated, and the row count is the sum of the two.
C4_CombinedOrder ==
    (Decided /\ outcome = "Combined")
    => /\ TableRows(final_df) = RowsOf(pre) \o records
       /\ Len(TableRows(final_df)) = Len(RowsOf(pre)) + Len(records)
       /\ Saved => (file.state = "valid" /\ RowsOf(file) = RowsOf(pre) \o records
                    /\ printed.saved = Len(RowsOf(pre)) + Len(records))

\* existing [e1, e2] and new [n1, n2] saved as [e1, e2, n1, n2]
C4_Witness ==
    /\ pc = "done" /\ outcome = "Combined" /\ exit = "Ok"
    /\ Len(RowsOf(pre)) = 2 /\ Len(records) = 2
    /\ RowsOf(pre)[1] # RowsOf(pre)[2] /\ records[1] # records[2]
    /\ RowsOf(file) = <<RowsOf(pre)[1], RowsOf(pre)[2], records[1], records[2]>>

\* C5: a non-empty batch without append, or with no file at the target, is
\* a Replace: the saved dataset is exactly the new batch's rows, whatever the
\* target held and whether or not append was requested.
C5_Replace ==
    (Decided /\ records # <<>> /\ (~append \/ pre.state = "absent"))
    => /\ outcome = "Replace"
       /\ reads = 0
       /\ TableRows(final_df) = records
       /\ Saved => (file.state = "valid" /\ RowsOf(file) = records)

\* a dataset overwritten by a run without append
C5_Witness ==
    /\ pc = "done" /\ outcome = "Replace" /\ exit = "Ok" /\ ~append
    /\ pre.state = "valid" /\ RowsOf(file) = records /\ RowsOf(pre) # records

\* C6: an invocation whose batch is empty does not read, create, truncate or
\* write the target, reports zero extracted records and ends with success.
C6_EmptyBatch ==
    (pc \in {"merge", "save", "write", "stats", "done"} /\ records = <<>>)
    => /\ file = pre
       /\ reads = 0 /\ writes = 0
       /\ printed.extracted = 0
       /\ pc \in {"merge", "done"}
       /\ pc = "done" => (outcome = "Empty" /\ exit = "Ok")

\* every packet of a non-empty stream failed, append on an existing dataset
C6_Witness ==
    /\ pc = "done" /\ outcome = "Empty" /\ packet_count > 0
    /\ append /\ pre.state = "valid" /\ file = pre
\* C7: the table is saved as one atomic replacement of the file: at every
\* point of an invocation the target holds the complete dataset it held
\* before or the complete final table, never an empty or partial file.
C7_AtomicReplacement ==
    Running => (file = pre \/ (file.state = "valid" /\ file.df = final_df))

\* C8: once the write has succeeded the invocation ends with success and
\* has reported the saved row count, whether or not the statistics fail; a
\* statistics failure is a warning and leaves the saved dataset as written.
C8_StatisticsNonFatal ==
    /\ pc = "stats" => (file.state = "valid" /\ file.df = final_df
                        /\ printed.saved = Len(RowsOf(file)))
    /\ (pc = "done" /\ printed.saved >= 0)
       => /\ exit = "Ok"
          /\ file.state = "valid" /\ file.df = final_df
          /\ printed.saved = Len(RowsOf(file))

\* a run that saved, failed in the statistics and still ended with success
C8_Witness ==
    pc = "done" /\ printed.warning /\ exit = "Ok" /\ printed.saved > 0

\* C9: the batch is the subsequence, in stream order, of the packets that
\* have a frame and a usb layer and whose capdata without colons is empty
\* or valid hex; a failed packet is skipped and the stream goes on, so the
\* batch size is the packets seen minus the packets that failed.
HexAlphabet == {"0","1","2","3","4","5","6","7","8","9",
                "a","b","c","d","e","f","A","B","C","D","E","F"}
Extractable(p) ==
    /\ p.frame /\ p.usb
    /\ LET h == IF p.capdata = <<>> THEN <<>>
                ELSE SelectSeq(p.capdata[1], LAMBDA c : c # ":")
       IN  h = <<>> \/ (Len(h) % 2 = 0 /\ \A i \in 1..Len(h) : h[i] \in HexAlphabet)
C9_BatchIsSubsequence ==
    [][pc = "read" =>
        LET kept == SelectSeq(rtshark, Extractable)
            failed == {i \in 1..Len(rtshark) : ~Extractable(rtshark[i])}
        IN  /\ packet_count' = Len(rtshark)
            /\ Len(records') = Len(kept)
            /\ Len(records') = packet_count' - Cardinality(failed)
            /\ \A i \in 1..Len(kept) :
                  /\ records'[i]["urb_id"] =
                        (IF kept[i].urb_id = <<>> THEN "Unknown" ELSE kept[i].urb_id[1])
                  /\ records'[i]["session_id"] = session_id
       ]_vars

\* a failed packet between two extracted ones
C9_Witness ==
    /\ pc = "merge" /\ packet_count = 3 /\ Len(records) = 2
    /\ records[1]["urb_id"] = "a" /\ records[2]["urb_id"] = "b"

\* C10: in one invocation the target is read at most once and written at
\* most once, a read comes before the write and happens only under append
\* with the file present; a rejection or an empty batch writes nothing.
C10_ReadWriteOnce ==
    /\ [](/\ reads <= 1 /\ writes <= 1
          /\ reads = 1 => (append /\ pre.state # "absent")
          /\ outcome \in {"DuplicateSession", "LikelyDuplicateContent", "Empty"}
             => (writes = 0 /\ file = pre))
    /\ [][writes >= 1 => reads' <= reads]_vars

\* an append that read the target and then wrote it
C10_Witness ==
    pc = "done" /\ reads = 1 /\ writes = 1 /\ exit = "Ok"

\* C11: for every extracted record, payload_hex is the capdata with all
\* colons removed (letter case kept) and payload_bytes_hex is that string in
\* lowercase, i.e. the re-encoding of its decoded bytes; with capdata absent
\* or empty both are empty and the packet is still extracted.
ToLower(c) ==
    CASE c = "A" -> "a" [] c = "B" -> "b" [] c = "C" -> "c"
      [] c = "D" -> "d" [] c = "E" -> "e" [] c = "F" -> "f"
      [] OTHER -> c
C11_PayloadRoundTrip ==
    [][pc = "read" =>
        LET kept == SelectSeq(rtshark, Extractable)
        IN  /\ Len(records') = Len(kept)
            /\ \A i \in 1..Len(kept) :
                  LET cap == IF kept[i].capdata = <<>> THEN <<>> ELSE kept[i].capdata[1]
                      stripped == SelectSeq(cap, LAMBDA c : c # ":")
                  IN  /\ records'[i]["payload_hex"] = stripped
                      /\ records'[i]["payload_bytes_hex"] =
                            [j \in 1..Len(stripped) |-> ToLower(stripped[j])]
                      /\ cap = <<>> => (records'[i]["payload_hex"] = <<>>
                                        /\ records'[i]["payload_bytes_hex"] = <<>>)
       ]_vars

\* a mixed-case payload with a colon, extracted
C11_Witness ==
    /\ pc = "merge" /\ packet_count = 1 /\ Len(records) = 1
    /\ records[1]["payload_hex"] = <<"0", "a", "F", "F">>
    /\ records[1]["payload_bytes_hex"] = <<"0", "a", "f", "f">>

\* C12: the direction of every extracted record is "H->D" when the raw
\* usb.endpoint_address.direction is exactly "0", "D->H" when it is exactly
\* "1" and "Unknown" for any other value or no value; there is no other
\* output, and the field never makes the extraction fail.
C12_DirectionMapping ==
    [][pc = "read" =>
        LET kept == SelectSeq(rtshark, Extractable)
        IN  /\ Len(records') = Len(kept)
            /\ \A i \in 1..Len(kept) :
                  /\ records'[i]["direction"] \in {"H->D", "D->H", "Unknown"}
                  /\ records'[i]["direction"] = "H->D" <=> kept[i].direction = <<"0">>
                  /\ records'[i]["direction"] = "D->H" <=> kept[i].direction = <<"1">>
       ]_vars

\* one packet whose direction is neither "0" nor "1", extracted as Unknown
C12_Witness ==
    /\ pc = "merge" /\ packet_count = 1 /\ Len(records) = 1
    /\ records[1]["direction"] = "Unknown"
    /\ records[1]["urb_id"] = "a" /\ records[1]["bus_id"] = 7

\* the urb ids of the rows of session s in the table of f, in order, and
\* the position of the first of them
UrbIdsOfSession(f, s) ==
    LET sid == f.df["session_id"]
        urb == f.df["urb_id"]
        idx == SelectSeq([i \in 1..Len(sid) |-> i], LAMBDA i : sid[i] = s)
    IN  [k \in 1..Len(idx) |-> urb[idx[k]]]
FirstRowOfSession(f, s) ==
    LET sid == f.df["session_id"]
    IN  CHOOSE i \in 1..Len(sid) : sid[i] = s /\ \A j \in 1..(i - 1) : sid[j] # s
SessionsIn(f) == {f.df["session_id"][i] : i \in 1..Len(f.df["session_id"])}
UrbIdsOfBatch == [i \in 1..Len(records) |-> records[i]["urb_id"]]
Reingestion ==
    /\ Decided /\ append /\ records # <<>>
    /\ pre.state = "valid" /\ ~HasSession(pre, session_id)

\* C13 as stated: a batch whose urb_id sequence is that of a batch already
\* in the dataset, appended under a new session id, is always rejected as
\* LikelyDuplicateContent and nothing is written.
C13_GuardCatchesReingestion ==
    (Reingestion /\ \E s \in SessionsIn(pre) : UrbIdsOfSession(pre, s) = UrbIdsOfBatch)
    => (outcome = "LikelyDuplicateContent" /\ pc = "done" /\ writes = 0 /\ file = pre)

\* C13 amended: such a batch is rejected as LikelyDuplicateContent, nothing
\* written, when it has at least two records and the first two rows of the
\* batch already ingested lie within the first 100 rows of the dataset.
C13_GuardCatchesSampledReingestion ==
    (Reingestion /\ Len(records) >= 2
        /\ \E s \in SessionsIn(pre) :
              /\ UrbIdsOfSession(pre, s) = UrbIdsOfBatch
              /\ FirstRowOfSession(pre, s) + 1 <= 100)
    => (outcome = "LikelyDuplicateContent" /\ pc = "done" /\ exit = "Ok"
        /\ writes = 0 /\ file = pre)

\* the capture ingested second is submitted again under a third session id
C13_Witness ==
    /\ pc = "done" /\ outcome = "LikelyDuplicateContent"
    /\ Reingestion /\ Len(records) >= 2
    /\ \E s \in SessionsIn(pre) :
          /\ UrbIdsOfSession(pre, s) = UrbIdsOfBatch
          /\ FirstRowOfSession(pre, s) > 1
====
